---- MODULE Spec2Model ----
(***************************************************************************)
(* Model of the lakefs-local crate: the index store (index.rs), the change *)
(* detector (changes.rs) and one synchronization pass of                   *)
(* SyncManager::sync (sync.rs).                                            *)
(*                                                                         *)
(* Conventions.  An Option<T> is a sequence: <<>> is None, <<v>> is        *)
(* Some(v).  A path is the sequence of its components, so that joining     *)
(* ("{}/{}", Path::join) is concatenation and a component's leading '.'    *)
(* can be tested.  A HashMap is a function whose domain is the key set.    *)
(* A timestamp is a natural number.                                        *)
(***************************************************************************)
EXTENDS Integers, Sequences, FiniteSets, TLC

VARIABLES
  pc,             \* position of the orchestrator inside SyncManager::sync
  result,         \* what sync returned: [kind, err, at]
  parallelism,    \* SyncConfig::parallelism
  local_path,     \* the tree root handed to sync
  gitignore,      \* the names the root's .gitignore excludes
  remote_uri,     \* the LakeFSUri handed to sync: [repository, reference, path]
  files,          \* regular files of the local tree: relative path -> [data, mtime]
  indexFile,      \* Option<content of <root>/.lakectl/index.json>
  disk0,          \* indexFile as it was when the pass started
  remote,         \* objects of the remote reference: path -> [data, mtime]
  index,          \* Option<the in-memory LocalIndex of the pass>
  changes,        \* the Vec<Change> returned by detect_changes
  tasks,          \* one record per spawned task, in spawn order: [state, result]
  permits,        \* permits available in the Semaphore
  collected,      \* how many tasks the collect loop has awaited
  uploaded, downloaded, removed, errors,
  clock,          \* what Utc::now() and the gateway's clock return
  request         \* the lakefs-api call under way outside a pass, if any

vars == <<pc, result, parallelism, local_path, gitignore, remote_uri, files,
          indexFile, disk0, remote, index, changes, tasks, permits, collected,
          uploaded, downloaded, removed, errors, clock, request>>

(***************************************************************************)
(* Bounds of the model.                                                    *)
(***************************************************************************)
MaxParallelism == 2     \* parallelism ranges over 1..MaxParallelism
WriteChunks == 2        \* fs::write reaches the disk in this many write calls
StartClock == 3         \* the pass starts after every stored timestamp
MaxTime == 12           \* timestamps and sizes range over 0..MaxTime
PageSize == 3           \* objects in one answer of the gateway's listing

(***************************************************************************)
(* Generic helpers.                                                        *)
(***************************************************************************)
None == <<>>
Some(v) == <<v>>
IsSome(o) == o # <<>>
Unwrap(o) == o[1]

EmptyMap == [k \in {} |-> 0]
Put(f, k, v) == [q \in (DOMAIN f) \cup {k} |-> IF q = k THEN v ELSE f[q]]
Del(f, k) == [q \in (DOMAIN f) \ {k} |-> f[q]]
Get(f, k) == IF k \in DOMAIN f THEN Some(f[k]) ELSE None

Range(s) == {s[i] : i \in DOMAIN s}
\* every order in which the elements of a finite set can be iterated
Orders(S) == {s \in [1..Cardinality(S) -> S] : Range(s) = S}

(***************************************************************************)
(* File contents.                                                          *)
(***************************************************************************)
Data == {"x", "y", "zz"}
Size(d) == IF d = "zz" THEN 2 ELSE 1          \* length in bytes
Sha256(d) == "sha256:" \o d                   \* calculate_checksum
RemoteChecksum(d) == "etag:" \o d             \* checksum the store reports

(***************************************************************************)
(* index.rs                                                                *)
(***************************************************************************)
VERSION == 1
INDEX_FILE == <<".lakectl", "index.json">>

\* LocalIndex::new
LocalIndex_new(repository, reference, head_commit, now) ==
  [version |-> VERSION, repository |-> repository, reference |-> reference,
   head_commit |-> head_commit, entries |-> EmptyMap, last_sync |-> now]

get_entry(idx, path) == Get(idx.entries, path)
add_entry(idx, path, entry) == [idx EXCEPT !.entries = Put(@, path, entry)]
remove_entry(idx, path) == [idx EXCEPT !.entries = Del(@, path)]
update_head(idx, commit_id, now) ==
  [idx EXCEPT !.head_commit = commit_id, !.last_sync = now]

\* serde_json renders a number as its decimal text and reads it back
NumberRange == 0..MaxTime
FormatNumber(n) == ToString(n)
IsNumber(s) == \E n \in NumberRange : ToString(n) = s
ParseNumber(s) == CHOOSE n \in NumberRange : ToString(n) = s

\* Option<u32>: None is the JSON null
FormatOption(o) == IF IsSome(o) THEN FormatNumber(Unwrap(o)) ELSE "null"
ParseOption(s) == IF s = "null" THEN None ELSE Some(ParseNumber(s))

\* a serializer that leaves the permissions out
SerializeEntry_Mut(e) ==
  [path |-> e.path, checksum |-> e.checksum, size |-> FormatNumber(e.size),
   mtime |-> FormatNumber(e.mtime), permissions |-> "null"]

\* Serialize for IndexEntry (derive)
SerializeEntry(e) ==
  [path |-> e.path, checksum |-> e.checksum, size |-> FormatNumber(e.size),
   mtime |-> FormatNumber(e.mtime), permissions |-> FormatOption(e.permissions)]

\* Serialize for LocalIndex (derive); order is the iteration order of the
\* entries HashMap, which decides the order of the members of "entries"
Serialize(idx, order) ==
  [version |-> FormatNumber(idx.version), repository |-> idx.repository,
   reference |-> idx.reference, head_commit |-> idx.head_commit,
   entries |-> [i \in 1..Len(order) |->
                  [key |-> order[i], value |-> SerializeEntry(idx.entries[order[i]])]],
   last_sync |-> FormatNumber(idx.last_sync)]

\* the texts serde_json::to_string_pretty can produce for an index
Serializations(idx) == {Serialize(idx, o) : o \in Orders(DOMAIN idx.entries)}

IndexFields == {"version", "repository", "reference", "head_commit", "entries", "last_sync"}
\* a missing Option member reads as None, every other member is required
EntryFields == {"path", "checksum", "size", "mtime"}

EntryParses(j) ==
  /\ EntryFields \subseteq DOMAIN j
  /\ IsNumber(j.size) /\ IsNumber(j.mtime)
  /\ "permissions" \in DOMAIN j => (j.permissions = "null" \/ IsNumber(j.permissions))

\* does serde_json::from_str::<LocalIndex> accept the document
Parses(json) ==
  /\ IndexFields \subseteq DOMAIN json
  /\ IsNumber(json.version) /\ IsNumber(json.last_sync)
  /\ \A i \in DOMAIN json.entries : EntryParses(json.entries[i].value)

DeserializeEntry(j) ==
  [path |-> j.path, checksum |-> j.checksum, size |-> ParseNumber(j.size),
   mtime |-> ParseNumber(j.mtime),
   permissions |-> IF "permissions" \in DOMAIN j THEN ParseOption(j.permissions) ELSE None]

\* Deserialize for LocalIndex (derive): members are inserted into the map
\* in document order, a repeated key keeps the last member
Deserialize(json) ==
  [version |-> ParseNumber(json.version), repository |-> json.repository,
   reference |-> json.reference, head_commit |-> json.head_commit,
   entries |-> [k \in {json.entries[i].key : i \in DOMAIN json.entries} |->
                  LET last == CHOOSE i \in DOMAIN json.entries :
                                /\ json.entries[i].key = k
                                /\ \A j \in DOMAIN json.entries :
                                     json.entries[j].key = k => j <= i
                  IN DeserializeEntry(json.entries[last].value)],
   last_sync |-> ParseNumber(json.last_sync)]

\* A file's content is the first `written` of the WriteChunks pieces of a
\* text; the text is complete when written = WriteChunks.
EmptyText == [garbage |-> ""]
EmptyFile == [json |-> EmptyText, written |-> 0]
FullFile(json) == [json |-> json, written |-> WriteChunks]
Prefix(json, n) == IF n = 0 THEN EmptyFile ELSE [json |-> json, written |-> n]

\* the error kinds of lakefs_local::Error
ErrorKinds == {"Io", "Api", "Index", "Sync", "InvalidPath"}

Ok(v) == [ok |-> TRUE, value |-> Some(v), err |-> "", msg |-> ""]
Err(kind, msg) == [ok |-> FALSE, value |-> None, err |-> kind, msg |-> msg]

\* LocalIndex::load applied to the content of the index file
load(file) ==
  IF file = None
    THEN Err("Index", "Failed to read index")
  ELSE IF Unwrap(file).written # WriteChunks \/ ~Parses(Unwrap(file).json)
    THEN Err("Index", "Failed to parse index")
  ELSE IF Deserialize(Unwrap(file).json).version # VERSION
    THEN Err("Index", "Unsupported index version")
  ELSE Ok(Deserialize(Unwrap(file).json))

(***************************************************************************)
(* changes.rs                                                              *)
(***************************************************************************)
\* str::starts_with('.') on a component
StartsWithDot(name) == name \in {".lakectl", ".gitignore", ".hidden", ".tmp"}

Last(path) == path[Len(path)]
IsPrefix(p, q) == Len(p) <= Len(q) /\ SubSeq(q, 1, Len(p)) = p

\* Path::exists for root.join(rel): a file, the index file, or a directory
exists(fs, ifile, rel) ==
  \/ rel \in DOMAIN fs
  \/ rel = INDEX_FILE /\ ifile # None
  \/ \E q \in (DOMAIN fs) \cup (IF ifile # None THEN {INDEX_FILE} ELSE {}) :
       IsPrefix(rel, q)

\* ChangeDetector::is_ignored; ignored is the set of names the root's
\* .gitignore excludes (Gitignore::empty() when there is no such file)
is_ignored(root, ignored, path) ==
  \/ StartsWithDot(Last(path))
  \/ Len(path) > Len(root) /\ Last(path) \in ignored

\* the regular files WalkDir yields under filter_entry: the root and every
\* directory on the way down must pass the filter as well
Enumerated(fs, root, ignored) ==
  {p \in DOMAIN fs :
     \A n \in Len(root)..(Len(root) + Len(p)) :
        ~is_ignored(root, ignored, SubSeq(root \o p, 1, n))}

\* a comparison that trusts the modification time and never looks at the size
has_changed_NoSize(file, index_entry) ==
  IF file.mtime > index_entry.mtime
    THEN Sha256(file.data) # index_entry.checksum
  ELSE FALSE

\* a comparison that hashes the content whatever the modification time is
has_changed_NoMtime(file, index_entry) ==
  IF Size(file.data) # index_entry.size THEN TRUE
  ELSE Sha256(file.data) # index_entry.checksum

\* ChangeDetector::has_changed
has_changed(file, index_entry) ==
  IF Size(file.data) # index_entry.size THEN TRUE
  ELSE IF file.mtime > index_entry.mtime
         THEN Sha256(file.data) # index_entry.checksum
  ELSE FALSE

Change(path, change_type, lp, remote_stats) ==
  [path |-> path, change_type |-> change_type,
   local_path |-> lp, remote_stats |-> remote_stats]

\* the HashMap detect_changes collects the listing into
RemoteMap(remote_objects) ==
  [p \in {o.path : o \in remote_objects} |->
     CHOOSE o \in remote_objects : o.path = p]

\* a first loop that does not pair a file with the object of its path
LocalChanges_NoPair(idx, remote_map, fs, root, ignored) ==
  {Change(p,
          IF p \in DOMAIN idx.entries THEN "Modified" ELSE "Added",
          Some(root \o p), None) :
     p \in {q \in Enumerated(fs, root, ignored) :
              q \in DOMAIN idx.entries => has_changed(fs[q], idx.entries[q])}}

\* a first loop that only looks at the files the index knows
LocalChanges_Mut(idx, remote_map, fs, root, ignored) ==
  {Change(p, "Modified", Some(root \o p), Get(remote_map, p)) :
     p \in {q \in Enumerated(fs, root, ignored) :
              q \in DOMAIN idx.entries /\ has_changed(fs[q], idx.entries[q])}}

\* first loop of detect_changes: local files against the index
LocalChanges(idx, remote_map, fs, root, ignored) ==
  {Change(p,
          IF p \in DOMAIN idx.entries THEN "Modified" ELSE "Added",
          Some(root \o p), Get(remote_map, p)) :
     p \in {q \in Enumerated(fs, root, ignored) :
              q \in DOMAIN idx.entries => has_changed(fs[q], idx.entries[q])}}

\* a pairing that leaves the paired object in the remote map
Without_Mut(f, keys) == f

Without(f, keys) == [q \in (DOMAIN f) \ keys |-> f[q]]
ConsumedBy(cs) == {c.path : c \in {d \in cs : IsSome(d.remote_stats)}}

\* a second loop that names the missing file as the local source
RemovedChanges_Mut(idx, remote_map, fs, ifile) ==
  {Change(p, "Removed", Some(p), Get(remote_map, p)) :
     p \in {q \in DOMAIN idx.entries : ~exists(fs, ifile, q)}}

\* a second loop that reports every indexed path the walk did not yield
RemovedChanges_Walk(idx, remote_map, fs, ifile) ==
  {Change(p, "Removed", None, Get(remote_map, p)) :
     p \in {q \in DOMAIN idx.entries : q \notin DOMAIN fs \/ StartsWithDot(Last(q))}}

\* second loop: indexed paths that are not on disk
RemovedChanges(idx, remote_map, fs, ifile) ==
  {Change(p, "Removed", None, Get(remote_map, p)) :
     p \in {q \in DOMAIN idx.entries : ~exists(fs, ifile, q)}}

\* a third loop that drops the listed metadata
RemoteChanges_Mut(idx, remote_map) ==
  {Change(p, IF p \in DOMAIN idx.entries THEN "Modified" ELSE "Added", None, None) :
     p \in {q \in DOMAIN remote_map :
              q \in DOMAIN idx.entries =>
                remote_map[q].checksum # idx.entries[q].checksum}}

\* a third loop that reports every listed object the index knows
RemoteChanges_NoChecksum(idx, remote_map) ==
  {Change(p, IF p \in DOMAIN idx.entries THEN "Modified" ELSE "Added",
          None, Some(remote_map[p])) : p \in DOMAIN remote_map}

\* third loop: what is left of the remote map
RemoteChanges(idx, remote_map) ==
  {Change(p, IF p \in DOMAIN idx.entries THEN "Modified" ELSE "Added",
          None, Some(remote_map[p])) :
     p \in {q \in DOMAIN remote_map :
              q \in DOMAIN idx.entries =>
                remote_map[q].checksum # idx.entries[q].checksum}}

\* ChangeDetector::detect_changes: the Vecs it can return; the order inside
\* each loop is the iteration order of WalkDir or of a HashMap
detect_changes(idx, remote_objects, fs, ifile, root, ignored) ==
  LET map0 == RemoteMap(remote_objects)
      loc  == LocalChanges(idx, map0, fs, root, ignored)
      map1 == Without(map0, ConsumedBy(loc))
      rem  == RemovedChanges(idx, map1, fs, ifile)
      map2 == Without(map1, ConsumedBy(rem))
      rmt  == RemoteChanges(idx, map2)
  IN {a \o b \o c : a \in Orders(loc), b \in Orders(rem), c \in Orders(rmt)}

(***************************************************************************)
(* The Remote Gateway as sync.rs uses it.                                  *)
(***************************************************************************)
Repository == "repo"
Reference == "main"
BranchCommit == "c1"      \* commit_id get_branch returns for the reference

\* get_branch(repository, reference) answered at a moment: the head of the
\* reference moves with time, so the answer names the moment it was given
get_branch(now) == [id |-> Reference, commit_id |-> "c" \o ToString(now)]

ObjectStats(path, obj) ==
  [path |-> path, checksum |-> RemoteChecksum(obj.data),
   size_bytes |-> Size(obj.data), mtime |-> obj.mtime]

\* results of list_objects(repository, reference, prefix)
list_objects(rem, prefix) ==
  {ObjectStats(p, rem[p]) :
     p \in {q \in DOMAIN rem : IsSome(prefix) => IsPrefix(Unwrap(prefix), q)}}

\* Pagination.results of the first answer: the gateway returns at most
\* PageSize objects per call; which ones depends on its order of the paths
FirstPages(rem, prefix) ==
  LET all == list_objects(rem, prefix)
  IN IF Cardinality(all) <= PageSize THEN {all}
     ELSE {S \in SUBSET all : Cardinality(S) = PageSize}

(***************************************************************************)
(* sync.rs                                                                 *)
(***************************************************************************)
\* SyncManager::list_remote_objects: the results of one list_objects call
list_remote_objects(rem, prefix) == FirstPages(rem, prefix)

\* a remote path that leaves the URI's path out
RemotePath_Mut(uri, path) == path

\* "{}/{}" of the URI's path and the change's path, or the change's path
RemotePath(uri, path) ==
  IF IsSome(uri.path) THEN Unwrap(uri.path) \o path ELSE path

Outcome(res, fs, ifile, rem, now) ==
  [result |-> res, files |-> fs, indexFile |-> ifile, remote |-> rem, clock |-> now]

\* an entry that keeps the size and the time and drops the checksum
IndexEntry_Mut(path, checksum, size, mtime, permissions) ==
  [path |-> path, checksum |-> "", size |-> size, mtime |-> mtime,
   permissions |-> permissions]

IndexEntry(path, checksum, size, mtime, permissions) ==
  [path |-> path, checksum |-> checksum, size |-> size, mtime |-> mtime,
   permissions |-> permissions]

\* fs::write(root.join(rel), data)
WriteLocal(fs, rel, data, now) == Put(fs, rel, [data |-> data, mtime |-> now])

\* an execution that reports a removal done and touches nothing
process_change_Mut(change, root, uri, fs, ifile, rem, now) ==
  IF change.change_type = "Removed"
    THEN {Outcome(Ok(IndexEntry(change.path, "", 0, now, None)), fs, ifile, rem, now + 1)}
    ELSE {}

\* SyncManager::process_change: the outcomes one execution can have, each
\* with the local tree, the index file and the remote store it leaves
process_change(change, root, uri, fs, ifile, rem, now) ==
  IF change.change_type \in {"Added", "Modified"} THEN
    IF IsSome(change.local_path) THEN
      LET lp  == Unwrap(change.local_path)
          rel == SubSeq(lp, Len(root) + 1, Len(lp))
      IN IF rel \notin DOMAIN fs
           THEN {Outcome(Err("Io", "read"), fs, ifile, rem, now)}
           ELSE {Outcome(Err("Api", "upload_object"), fs, ifile, rem, now),
                 Outcome(Ok(IndexEntry(change.path, RemoteChecksum(fs[rel].data),
                                       Size(fs[rel].data), now, None)),
                         fs, ifile,
                         Put(rem, RemotePath(uri, change.path),
                             [data |-> fs[rel].data, mtime |-> now]),
                         now + 1)}
    ELSE IF IsSome(change.remote_stats) THEN
      LET rs == Unwrap(change.remote_stats)
          entry == IndexEntry(change.path, rs.checksum, rs.size_bytes, rs.mtime, None)
      IN IF rs.path \notin DOMAIN rem
           THEN {Outcome(Err("Api", "download_object"), fs, ifile, rem, now)}
           ELSE {Outcome(Err("Api", "download_object"), fs, ifile, rem, now),
                 IF change.path = INDEX_FILE
                   THEN Outcome(Ok(entry), fs,
                                Some(FullFile([bytes |-> rem[rs.path].data])),
                                rem, now + 1)
                   ELSE Outcome(Ok(entry),
                                WriteLocal(fs, change.path, rem[rs.path].data, now),
                                ifile, rem, now + 1)}
    ELSE {Outcome(Err("Sync", "No source for change"), fs, ifile, rem, now)}
  ELSE
    LET entry == IndexEntry(change.path, "", 0, now, None)
    IN IF change.local_path = None THEN
         IF change.path \in DOMAIN fs
           THEN {Outcome(Err("Io", "remove_file"), fs, ifile, rem, now),
                 Outcome(Ok(entry), Del(fs, change.path), ifile, rem, now + 1)}
         ELSE IF change.path = INDEX_FILE /\ ifile # None
           THEN {Outcome(Err("Io", "remove_file"), fs, ifile, rem, now),
                 Outcome(Ok(entry), fs, None, rem, now + 1)}
         ELSE IF exists(fs, ifile, change.path)
           THEN {Outcome(Err("Io", "remove_file"), fs, ifile, rem, now)}
         ELSE {Outcome(Ok(entry), fs, ifile, rem, now + 1)}
       ELSE {Outcome(Err("Api", "delete_object"), fs, ifile, rem, now),
             Outcome(Ok(entry), fs, ifile,
                     Del(rem, RemotePath(uri, change.path)), now + 1)}

Pending == Err("", "")

\* no call into the lakefs-api crate is under way
NoRequest == [op |-> "none"]
Task(state, res) == [state |-> state, result |-> res]

NoResult == [kind |-> "none", err |-> "", at |-> ""]
Failed(err, at) == [kind |-> "Err", err |-> err, at |-> at]
Returned == [kind |-> "Ok", err |-> "", at |-> ""]

\* an admission test that is off by one
CanAcquire_Mut(p) == p >= 0

\* Semaphore::acquire completes only while a permit is available
CanAcquire(p) == p > 0

\* a join that returns as soon as the task was admitted
Joined_Mut(task) == task.state # "waiting"

\* JoinHandle::await completes once the task has run to its end
Joined(task) == task.state = "done"

\* a merge that keeps the entry a path already has
ApplyResult_KeepOld(idx, change, res) ==
  IF res.ok THEN
    IF change.change_type \in {"Added", "Modified"}
      THEN IF change.path \in DOMAIN idx.entries THEN idx
           ELSE add_entry(idx, change.path, Unwrap(res.value))
      ELSE remove_entry(idx, change.path)
  ELSE idx

\* a merge that forgets the path of a failed Change
ApplyResult_DropOnError(idx, change, res) ==
  IF res.ok THEN
    IF change.change_type \in {"Added", "Modified"}
      THEN add_entry(idx, change.path, Unwrap(res.value))
      ELSE remove_entry(idx, change.path)
  ELSE remove_entry(idx, change.path)

\* a merge that leaves the entry of a removed path in the index
ApplyResult_Mut(idx, change, res) ==
  IF res.ok /\ change.change_type \in {"Added", "Modified"}
    THEN add_entry(idx, change.path, Unwrap(res.value))
    ELSE idx

\* the match on a collected result (sync.rs 109-129): the index afterwards
ApplyResult(idx, change, res) ==
  IF res.ok THEN
    IF change.change_type \in {"Added", "Modified"}
      THEN add_entry(idx, change.path, Unwrap(res.value))
      ELSE remove_entry(idx, change.path)
  ELSE idx

(***************************************************************************)
(* One synchronization pass.                                               *)
(***************************************************************************)
A == <<"a.txt">>
B == <<"b.txt">>
Root == <<"home", "work">>

TrackedEntry(p) == IndexEntry(p, RemoteChecksum("x"), Size("x"), 1, None)
StoredIndex(paths) ==
  [version |-> VERSION, repository |-> Repository, reference |-> Reference,
   head_commit |-> "c0", entries |-> [p \in paths |-> TrackedEntry(p)],
   last_sync |-> 2]

Maps(keys, values) == UNION {[S -> values] : S \in SUBSET keys}

\* snapshots a pass can find: none, one written by an earlier pass, one
\* written by another format version, one cut short, one that is no JSON
ValidSnapshots == {Some(FullFile(j)) : j \in UNION {Serializations(StoredIndex(S)) : S \in SUBSET {A, B}}}
OtherVersion == [Serialize(StoredIndex({A}), <<A>>) EXCEPT !.version = FormatNumber(VERSION + 1)]
BrokenSnapshots ==
  {None, Some(FullFile(OtherVersion)), Some(FullFile([garbage |-> "not json"])),
   Some(Prefix(Serialize(StoredIndex({A}), <<A>>), 1))}

InitTrees ==
  {f \in Maps({A, B}, {[data |-> "x", mtime |-> 1], [data |-> "y", mtime |-> 2]}) :
     B \in DOMAIN f => f[B].data = "y"}
InitRemotes ==
  {r \in Maps({A, B, INDEX_FILE}, {[data |-> "x", mtime |-> 1], [data |-> "zz", mtime |-> 2]}) :
     /\ B \in DOMAIN r => r[B].data = "x"
     /\ INDEX_FILE \in DOMAIN r => r[INDEX_FILE].data = "x"}

SyncInit(snapshots, trees, remotes, roots, prefixes) ==
  /\ pc = "load"
  /\ result = NoResult
  /\ parallelism \in 1..MaxParallelism
  /\ local_path \in roots
  /\ gitignore = {}
  /\ remote_uri \in {[repository |-> Repository, reference |-> Reference, path |-> x] :
                       x \in prefixes}
  /\ files \in trees
  /\ indexFile \in snapshots
  /\ disk0 = indexFile
  /\ remote \in remotes
  /\ index = None
  /\ changes = <<>>
  /\ tasks = <<>>
  /\ permits = 0
  /\ collected = 0
  /\ uploaded = 0 /\ downloaded = 0 /\ removed = 0 /\ errors = <<>>
  /\ clock = StartClock
  /\ request = NoRequest

Init ==
  /\ SyncInit(ValidSnapshots \cup BrokenSnapshots, InitTrees, InitRemotes, {Root}, {None})
  /\ indexFile \in BrokenSnapshots => B \notin (DOMAIN files) \cup (DOMAIN remote)

\* sync.rs 45-46: the stored index loads
LoadIndex ==
  /\ pc = "load"
  /\ load(indexFile).ok
  /\ index' = load(indexFile).value
  /\ pc' = "list"
  /\ UNCHANGED <<request, result, parallelism, local_path, gitignore, remote_uri, files,
                 indexFile, disk0, remote, changes, tasks, permits, collected,
                 uploaded, downloaded, removed, errors, clock>>

\* a pass that persists the fresh index as soon as it has made it
CreateIndex_Mut ==
  /\ pc = "load"
  /\ ~load(indexFile).ok
  /\ index' = Some(LocalIndex_new(remote_uri.repository, remote_uri.reference,
                                  get_branch(clock).commit_id, clock))
  /\ indexFile' = Some(FullFile(Serialize(Unwrap(index'), <<>>)))
  /\ clock' = clock + 1
  /\ pc' = "list"
  /\ UNCHANGED <<request, result, parallelism, local_path, gitignore, remote_uri, files,
                 disk0, remote, changes, tasks, permits, collected,
                 uploaded, downloaded, removed, errors>>

\* sync.rs 47-51: load failed, get_branch answers, a fresh index is made
CreateIndex ==
  /\ pc = "load"
  /\ ~load(indexFile).ok
  /\ index' = Some(LocalIndex_new(remote_uri.repository, remote_uri.reference,
                                  get_branch(clock).commit_id, clock))
  /\ clock' = clock + 1
  /\ pc' = "list"
  /\ UNCHANGED <<request, result, parallelism, local_path, gitignore, remote_uri, files,
                 indexFile, disk0, remote, changes, tasks, permits, collected,
                 uploaded, downloaded, removed, errors>>

\* sync.rs 49: load failed and get_branch fails
CreateIndexFails ==
  /\ pc = "load"
  /\ ~load(indexFile).ok
  /\ pc' = "failed"
  /\ result' = Failed("Api", "get_branch")
  /\ UNCHANGED <<request, parallelism, local_path, gitignore, remote_uri, files,
                 indexFile, disk0, remote, index, changes, tasks, permits,
                 collected, uploaded, downloaded, removed, errors, clock>>

\* a pass that hands the first Change to a task while it still detects
DetectChanges_Mut ==
  /\ pc = "list"
  /\ changes' \in detect_changes(Unwrap(index), list_objects(remote, remote_uri.path),
                                 files, indexFile, local_path, gitignore)
  /\ permits' = parallelism
  /\ tasks' = IF changes' = <<>> THEN tasks ELSE <<Task("waiting", Pending)>>
  /\ pc' = IF changes' = <<>> THEN "resolve"
           ELSE IF Len(changes') = 1 THEN "collect" ELSE "spawn"
  /\ UNCHANGED <<request, result, parallelism, local_path, gitignore, remote_uri, files,
                 indexFile, disk0, remote, index, collected,
                 uploaded, downloaded, removed, errors, clock>>

\* sync.rs 55, 149-164 and 58-59, 76: the listing arrives, detection runs
\* on it, the semaphore is created
DetectChanges ==
  /\ pc = "list"
  /\ \E remote_objects \in list_remote_objects(remote, remote_uri.path) :
       changes' \in detect_changes(Unwrap(index), remote_objects,
                                   files, indexFile, local_path, gitignore)
  /\ permits' = parallelism
  /\ pc' = IF changes' = <<>> THEN "resolve" ELSE "spawn"
  /\ UNCHANGED <<request, result, parallelism, local_path, gitignore, remote_uri, files,
                 indexFile, disk0, remote, index, tasks, collected,
                 uploaded, downloaded, removed, errors, clock>>

\* sync.rs 55: list_objects fails
ListFails ==
  /\ pc = "list"
  /\ pc' = "failed"
  /\ result' = Failed("Api", "list_objects")
  /\ UNCHANGED <<request, parallelism, local_path, gitignore, remote_uri, files,
                 indexFile, disk0, remote, index, changes, tasks, permits,
                 collected, uploaded, downloaded, removed, errors, clock>>

\* a detection that reports the error and still hands over what it found
DetectFails_Mut ==
  /\ pc = "list"
  /\ Enumerated(files, local_path, gitignore) # {}
  /\ changes' \in detect_changes(Unwrap(index), list_objects(remote, remote_uri.path),
                                 files, indexFile, local_path, gitignore)
  /\ permits' = parallelism
  /\ pc' = IF changes' = <<>> THEN "failed" ELSE "spawn"
  /\ result' = Failed("Io", "detect_changes")
  /\ UNCHANGED <<request, parallelism, local_path, gitignore, remote_uri, files,
                 indexFile, disk0, remote, index, tasks,
                 collected, uploaded, downloaded, removed, errors, clock>>

\* sync.rs 59, changes.rs 71-77: the listing arrived, and the metadata or
\* the content of an enumerated file cannot be read, or its path cannot be
\* related to the root: detect_changes returns the error
DetectFails ==
  /\ pc = "list"
  /\ Enumerated(files, local_path, gitignore) # {}
  /\ pc' = "failed"
  /\ result' = Failed("Io", "detect_changes")
  /\ UNCHANGED <<request, parallelism, local_path, gitignore, remote_uri, files,
                 indexFile, disk0, remote, index, changes, tasks, permits,
                 collected, uploaded, downloaded, removed, errors, clock>>

\* sync.rs 79-98: one turn of the spawn loop
SpawnTask ==
  /\ pc = "spawn"
  /\ tasks' = Append(tasks, Task("waiting", Pending))
  /\ pc' = IF Len(tasks') = Len(changes) THEN "collect" ELSE "spawn"
  /\ UNCHANGED <<request, result, parallelism, local_path, gitignore, remote_uri, files,
                 indexFile, disk0, remote, index, changes, permits, collected,
                 uploaded, downloaded, removed, errors, clock>>

\* sync.rs 87: a spawned task gets its permit
Acquire(i) ==
  /\ tasks[i].state = "waiting"
  /\ CanAcquire(permits)
  /\ permits' = permits - 1
  /\ tasks' = [tasks EXCEPT ![i].state = "running"]
  /\ UNCHANGED <<request, pc, result, parallelism, local_path, gitignore, remote_uri, files,
                 indexFile, disk0, remote, index, changes, collected,
                 uploaded, downloaded, removed, errors, clock>>

\* a task that keeps its permit when process_change has failed
ProcessChange_Mut(i) ==
  /\ tasks[i].state = "running"
  /\ \E o \in process_change(changes[i], local_path, remote_uri, files, indexFile,
                             remote, clock) :
       /\ tasks' = [tasks EXCEPT ![i] = Task("done", o.result)]
       /\ files' = o.files
       /\ indexFile' = o.indexFile
       /\ remote' = o.remote
       /\ clock' = o.clock
       /\ permits' = IF o.result.ok THEN permits + 1 ELSE permits
  /\ UNCHANGED <<request, pc, result, parallelism, local_path, gitignore, remote_uri,
                 disk0, index, changes, collected,
                 uploaded, downloaded, removed, errors>>

\* sync.rs 88-95: process_change runs to its end, the permit is dropped
ProcessChange(i) ==
  /\ tasks[i].state = "running"
  /\ \E o \in process_change(changes[i], local_path, remote_uri, files, indexFile,
                             remote, clock) :
       /\ tasks' = [tasks EXCEPT ![i] = Task("done", o.result)]
       /\ files' = o.files
       /\ indexFile' = o.indexFile
       /\ remote' = o.remote
       /\ clock' = o.clock
  /\ permits' = permits + 1
  /\ UNCHANGED <<request, pc, result, parallelism, local_path, gitignore, remote_uri,
                 disk0, index, changes, collected,
                 uploaded, downloaded, removed, errors>>

\* a collect loop that counts every successful transfer as an upload
Collect_Mut ==
  /\ pc = "collect"
  /\ collected < Len(tasks)
  /\ LET n == collected + 1
         change == changes[n]
         res == tasks[n].result
     IN /\ Joined(tasks[n])
        /\ index' = Some(ApplyResult(Unwrap(index), change, res))
        /\ uploaded' = IF res.ok /\ change.change_type # "Removed"
                         THEN uploaded + 1 ELSE uploaded
        /\ downloaded' = downloaded
        /\ removed' = IF res.ok /\ change.change_type = "Removed"
                        THEN removed + 1 ELSE removed
        /\ errors' = IF res.ok THEN errors ELSE Append(errors, <<change.path, res.err>>)
        /\ collected' = n
        /\ pc' = IF n = Len(changes) THEN "resolve" ELSE "collect"
  /\ UNCHANGED <<request, result, parallelism, local_path, gitignore, remote_uri, files,
                 indexFile, disk0, remote, changes, tasks, permits, clock>>

\* sync.rs 106-130: one turn of the collect loop
Collect ==
  /\ pc = "collect"
  /\ collected < Len(tasks)
  /\ LET n == collected + 1
         change == changes[n]
         res == tasks[n].result
     IN /\ Joined(tasks[n])
        /\ index' = Some(ApplyResult(Unwrap(index), change, res))
        /\ uploaded' = IF res.ok /\ change.change_type # "Removed" /\ IsSome(change.local_path)
                         THEN uploaded + 1 ELSE uploaded
        /\ downloaded' = IF res.ok /\ change.change_type # "Removed" /\ ~IsSome(change.local_path)
                           THEN downloaded + 1 ELSE downloaded
        /\ removed' = IF res.ok /\ change.change_type = "Removed"
                        THEN removed + 1 ELSE removed
        /\ errors' = IF res.ok THEN errors ELSE Append(errors, <<change.path, res.err>>)
        /\ collected' = n
        /\ pc' = IF n = Len(changes) THEN "resolve" ELSE "collect"
  /\ UNCHANGED <<request, result, parallelism, local_path, gitignore, remote_uri, files,
                 indexFile, disk0, remote, changes, tasks, permits, clock>>

\* a pass that stamps the time and keeps the head the index came with
UpdateHead_Mut ==
  /\ pc = "resolve"
  /\ index' = Some(update_head(Unwrap(index), Unwrap(index).head_commit, clock))
  /\ clock' = clock + 1
  /\ pc' = "save"
  /\ UNCHANGED <<request, result, parallelism, local_path, gitignore, remote_uri, files,
                 indexFile, disk0, remote, changes, tasks, permits, collected,
                 uploaded, downloaded, removed, errors>>

\* sync.rs 137-138: the head is resolved again and stamped
UpdateHead ==
  /\ pc = "resolve"
  /\ index' = Some(update_head(Unwrap(index), get_branch(clock).commit_id, clock))
  /\ clock' = clock + 1
  /\ pc' = "save"
  /\ UNCHANGED <<request, result, parallelism, local_path, gitignore, remote_uri, files,
                 indexFile, disk0, remote, changes, tasks, permits, collected,
                 uploaded, downloaded, removed, errors>>

\* sync.rs 137: get_branch fails
ResolveFails ==
  /\ pc = "resolve"
  /\ pc' = "failed"
  /\ result' = Failed("Api", "get_branch")
  /\ UNCHANGED <<request, parallelism, local_path, gitignore, remote_uri, files,
                 indexFile, disk0, remote, index, changes, tasks, permits,
                 collected, uploaded, downloaded, removed, errors, clock>>

\* index.rs 61-71: fs::write opens the index file, which empties it
SaveOpen ==
  /\ pc = "save"
  /\ indexFile' = Some(EmptyFile)
  /\ pc' = "write"
  /\ UNCHANGED <<request, result, parallelism, local_path, gitignore, remote_uri, files,
                 disk0, remote, index, changes, tasks, permits, collected,
                 uploaded, downloaded, removed, errors, clock>>

\* index.rs 65, 71: create_dir_all or the open fails
SaveOpenFails ==
  /\ pc = "save"
  /\ pc' = "failed"
  /\ result' = Failed("Io", "save")
  /\ UNCHANGED <<request, parallelism, local_path, gitignore, remote_uri, files,
                 indexFile, disk0, remote, index, changes, tasks, permits,
                 collected, uploaded, downloaded, removed, errors, clock>>

\* index.rs 71: fs::write puts the next piece of the text into the file;
\* sync.rs 141-146 returns the summary after the last one
SaveWrite ==
  /\ pc = "write"
  /\ \E json \in Serializations(Unwrap(index)) :
       LET cur == Unwrap(indexFile)
       IN /\ cur.written > 0 => cur.json = json
          /\ indexFile' = Some(Prefix(json, cur.written + 1))
          /\ pc' = IF cur.written + 1 = WriteChunks THEN "done" ELSE "write"
          /\ result' = IF cur.written + 1 = WriteChunks THEN Returned ELSE result
  /\ UNCHANGED <<request, parallelism, local_path, gitignore, remote_uri, files,
                 disk0, remote, index, changes, tasks, permits, collected,
                 uploaded, downloaded, removed, errors, clock>>

\* index.rs 71: a write call fails and leaves what was written so far
SaveWriteFails ==
  /\ pc = "write"
  /\ pc' = "failed"
  /\ result' = Failed("Io", "save")
  /\ UNCHANGED <<request, parallelism, local_path, gitignore, remote_uri, files,
                 indexFile, disk0, remote, index, changes, tasks, permits,
                 collected, uploaded, downloaded, removed, errors, clock>>

Next ==
  \/ LoadIndex \/ CreateIndex \/ CreateIndexFails
  \/ DetectChanges \/ ListFails \/ DetectFails
  \/ SpawnTask
  \/ \E i \in DOMAIN tasks : Acquire(i)
  \/ \E i \in DOMAIN tasks : ProcessChange(i)
  \/ Collect
  \/ UpdateHead \/ ResolveFails
  \/ SaveOpen \/ SaveOpenFails \/ SaveWrite \/ SaveWriteFails

Spec == Init /\ [][Next]_vars

(***************************************************************************)
(* lakectl-cli: the local pull and local commit commands.  Each loads the  *)
(* index, runs one pass with the URI built from it, and then stamps and    *)
(* saves the index it loaded.                                              *)
(***************************************************************************)
\* LakeFSClient::commit: the commit the gateway creates at the time of the call
commit(now) == [id |-> "c" \o ToString(now)]

\* the index the command holds: LocalIndex::load before the pass has run
CommandIndex == Unwrap(load(disk0).value)

\* local.rs 97, 134: the command has loaded a snapshot and starts the pass
InitCommand == SyncInit(ValidSnapshots, InitTrees, InitRemotes, {Root}, {None})

\* local.rs 111-113: pull resolves the head, stamps its index and saves it
PullFinish ==
  /\ pc = "done"
  /\ index' = Some(update_head(CommandIndex, get_branch(clock).commit_id, clock))
  /\ indexFile' \in {Some(FullFile(json)) : json \in Serializations(Unwrap(index'))}
  /\ clock' = clock + 1
  /\ pc' = "pulled"
  /\ UNCHANGED <<request, result, parallelism, local_path, gitignore, remote_uri, files,
                 disk0, remote, changes, tasks, permits, collected,
                 uploaded, downloaded, removed, errors>>

\* local.rs 148-151: commit returns when the pass uploaded and removed nothing
CommitNothing ==
  /\ pc = "done"
  /\ uploaded = 0 /\ removed = 0
  /\ pc' = "nothing"
  /\ UNCHANGED <<request, result, parallelism, local_path, gitignore, remote_uri, files,
                 indexFile, disk0, remote, index, changes, tasks, permits, collected,
                 uploaded, downloaded, removed, errors, clock>>

\* local.rs 154-162: commit creates the commit, stamps its index and saves it
CommitFinish ==
  /\ pc = "done"
  /\ ~(uploaded = 0 /\ removed = 0)
  /\ index' = Some(update_head(CommandIndex, commit(clock).id, clock))
  /\ indexFile' \in {Some(FullFile(json)) : json \in Serializations(Unwrap(index'))}
  /\ clock' = clock + 1
  /\ pc' = "committed"
  /\ UNCHANGED <<request, result, parallelism, local_path, gitignore, remote_uri, files,
                 disk0, remote, changes, tasks, permits, collected,
                 uploaded, downloaded, removed, errors>>

\* local.rs 111, 154: get_branch or commit fails after the pass
CommandFails ==
  /\ pc = "done"
  /\ pc' = "failed"
  /\ result' = Failed("Api", "command")
  /\ UNCHANGED <<request, parallelism, local_path, gitignore, remote_uri, files,
                 indexFile, disk0, remote, index, changes, tasks, permits,
                 collected, uploaded, downloaded, removed, errors, clock>>

NextCommand ==
  \/ LoadIndex
  \/ DetectChanges \/ ListFails \/ DetectFails
  \/ SpawnTask
  \/ \E i \in DOMAIN tasks : Acquire(i)
  \/ \E i \in DOMAIN tasks : ProcessChange(i)
  \/ Collect
  \/ UpdateHead \/ ResolveFails
  \/ SaveOpen \/ SaveOpenFails \/ SaveWrite \/ SaveWriteFails
  \/ PullFinish \/ CommitNothing \/ CommitFinish \/ CommandFails

SpecCommand == InitCommand /\ [][NextCommand]_vars

(***************************************************************************)
(* Two passes in a row: the caller runs sync again after a pass that       *)
(* returned a summary without errors; nobody else touches tree or store.   *)
(***************************************************************************)
\* the snapshot this pass started with was saved by the pass before it
SecondPass ==
  /\ load(disk0).ok
  /\ Unwrap(load(disk0).value).last_sync >= StartClock

InitTwice ==
  SyncInit(ValidSnapshots \cup {None}, InitTrees,
           {r \in InitRemotes : INDEX_FILE \notin DOMAIN r}, {Root}, {None})

\* sync.rs 39-56: the next call of sync starts from what the last one left
SyncAgain ==
  /\ pc = "done"
  /\ errors = <<>>
  /\ ~SecondPass
  /\ pc' = "load"
  /\ result' = NoResult
  /\ disk0' = indexFile
  /\ index' = None
  /\ changes' = <<>>
  /\ tasks' = <<>>
  /\ permits' = 0
  /\ collected' = 0
  /\ uploaded' = 0 /\ downloaded' = 0 /\ removed' = 0
  /\ UNCHANGED <<request, parallelism, local_path, gitignore, remote_uri, files,
                 indexFile, remote, errors, clock>>

NextTwice == Next \/ SyncAgain

SpecTwice == InitTwice /\ [][NextTwice]_vars

(***************************************************************************)
(* A pass under a scheduler that runs whatever can run: every call that    *)
(* was made returns, every task that can go on does.  SyncConfig accepts   *)
(* any parallelism, zero included.                                         *)
(***************************************************************************)
InitLive ==
  /\ pc = "load"
  /\ result = NoResult
  /\ parallelism \in 0..MaxParallelism
  /\ local_path = Root
  /\ gitignore = {}
  /\ remote_uri = [repository |-> Repository, reference |-> Reference, path |-> None]
  /\ files \in {f \in InitTrees : B \in DOMAIN f}
  /\ indexFile \in {None, Some(FullFile(Serialize(StoredIndex({A}), <<A>>)))}
  /\ disk0 = indexFile
  /\ remote \in {r \in InitRemotes : B \notin DOMAIN r /\ INDEX_FILE \notin DOMAIN r}
  /\ index = None
  /\ changes = <<>>
  /\ tasks = <<>>
  /\ permits = 0
  /\ collected = 0
  /\ uploaded = 0 /\ downloaded = 0 /\ removed = 0 /\ errors = <<>>
  /\ clock = StartClock
  /\ request = NoRequest

SpecLive == InitLive /\ [][Next]_vars /\ WF_vars(Next)

(***************************************************************************)
(* The index store on its own: a caller that builds an index, saves it     *)
(* and loads it.                                                           *)
(***************************************************************************)
EntryValues(p) ==
  IF p = A
    THEN {IndexEntry(A, RemoteChecksum("x"), Size("x"), 1, None),
          IndexEntry(A, RemoteChecksum("zz"), Size("zz"), 2, Some(6))}
    ELSE {IndexEntry(p, "", 0, StartClock, None)}

InitIndex ==
  /\ pc = "idle"
  /\ result = NoResult
  /\ parallelism = 1
  /\ local_path = Root
  /\ gitignore = {}
  /\ remote_uri = [repository |-> Repository, reference |-> Reference, path |-> None]
  /\ files = EmptyMap
  /\ indexFile \in BrokenSnapshots
  /\ disk0 = indexFile
  /\ remote = EmptyMap
  /\ index = None
  /\ changes = <<>>
  /\ tasks = <<>>
  /\ permits = 0
  /\ collected = 0
  /\ uploaded = 0 /\ downloaded = 0 /\ removed = 0 /\ errors = <<>>
  /\ clock = StartClock
  /\ request = NoRequest

\* LocalIndex::new
NewIndex ==
  /\ pc = "idle"
  /\ index = None
  /\ index' = Some(LocalIndex_new(Repository, Reference, "c0", clock))
  /\ UNCHANGED <<request, pc, result, parallelism, local_path, gitignore, remote_uri, files,
                 indexFile, disk0, remote, changes, tasks, permits, collected,
                 uploaded, downloaded, removed, errors, clock>>

\* LocalIndex::load called on the tree root
LoadCall ==
  /\ pc = "idle"
  /\ index' = load(indexFile).value
  /\ result' = IF load(indexFile).ok THEN NoResult
               ELSE Failed(load(indexFile).err, "load")
  /\ UNCHANGED <<request, pc, parallelism, local_path, gitignore, remote_uri, files,
                 indexFile, disk0, remote, changes, tasks, permits, collected,
                 uploaded, downloaded, removed, errors, clock>>

\* LocalIndex::add_entry
AddEntry ==
  /\ pc = "idle"
  /\ index # None
  /\ \E p \in {A, B} : \E e \in EntryValues(p) :
       index' = Some(add_entry(Unwrap(index), p, e))
  /\ UNCHANGED <<request, pc, result, parallelism, local_path, gitignore, remote_uri, files,
                 indexFile, disk0, remote, changes, tasks, permits, collected,
                 uploaded, downloaded, removed, errors, clock>>

\* LocalIndex::remove_entry
RemoveEntry ==
  /\ pc = "idle"
  /\ index # None
  /\ \E p \in {A, B} : index' = Some(remove_entry(Unwrap(index), p))
  /\ UNCHANGED <<request, pc, result, parallelism, local_path, gitignore, remote_uri, files,
                 indexFile, disk0, remote, changes, tasks, permits, collected,
                 uploaded, downloaded, removed, errors, clock>>

\* LocalIndex::update_head
UpdateHeadCall ==
  /\ pc = "idle"
  /\ index # None
  /\ clock < StartClock + 1
  /\ index' = Some(update_head(Unwrap(index), BranchCommit, clock + 1))
  /\ clock' = clock + 1
  /\ UNCHANGED <<request, pc, result, parallelism, local_path, gitignore, remote_uri, files,
                 indexFile, disk0, remote, changes, tasks, permits, collected,
                 uploaded, downloaded, removed, errors>>

\* LocalIndex::save is called; disk0 keeps the snapshot it is about to replace
SaveCall ==
  /\ pc = "idle"
  /\ index # None
  /\ pc' = "save"
  /\ disk0' = indexFile
  /\ result' = NoResult
  /\ UNCHANGED <<request, parallelism, local_path, gitignore, remote_uri, files,
                 indexFile, remote, index, changes, tasks, permits, collected,
                 uploaded, downloaded, removed, errors, clock>>

\* save has returned to the caller
SaveReturn ==
  /\ pc \in {"done", "failed"}
  /\ pc' = "idle"
  /\ result' = NoResult
  /\ UNCHANGED <<request, parallelism, local_path, gitignore, remote_uri, files,
                 indexFile, disk0, remote, index, changes, tasks, permits,
                 collected, uploaded, downloaded, removed, errors, clock>>

NextIndex ==
  \/ NewIndex \/ LoadCall \/ AddEntry \/ RemoveEntry \/ UpdateHeadCall
  \/ SaveCall \/ SaveOpen \/ SaveOpenFails \/ SaveWrite \/ SaveWriteFails
  \/ SaveReturn

SpecIndex == InitIndex /\ [][NextIndex]_vars

(***************************************************************************)
(* The change detector on its own: a caller that builds a ChangeDetector   *)
(* for a tree and asks it for the changes of the tree against an index     *)
(* and a listing.                                                          *)
(***************************************************************************)
H == <<".hidden">>
D == <<"d">>
DA == <<"d", "a.txt">>
GITIGNORE == <<".gitignore">>
DotRoot == <<"tmp", ".tmp">>

\* ChangeDetector::new: the names the root's .gitignore excludes; the file
\* holds one pattern, the name of a file
ChangeDetector_new(fs) ==
  IF GITIGNORE \in DOMAIN fs THEN {fs[GITIGNORE].data} ELSE {}

\* index entries a caller can hand in: written by a pass (the store's
\* checksum), or carrying the SHA-256 of some content, with either size
DetectEntries(p) ==
  IF p = A
    THEN {TrackedEntry(A), IndexEntry(A, Sha256("y"), Size("y"), 1, None),
          IndexEntry(A, Sha256("y"), Size("zz"), 1, None)}
    ELSE {TrackedEntry(p)}

DetectFileValues(p) ==
  IF p = A THEN [data : {"x", "y", "zz"}, mtime : {1, 2}]
  ELSE IF p = GITIGNORE THEN {[data |-> Last(B), mtime |-> 1]}
  ELSE {[data |-> "x", mtime |-> 1]}

DetectRemoteValues(p) ==
  IF p = A THEN {[data |-> "x", mtime |-> 1], [data |-> "zz", mtime |-> 2]}
  ELSE {[data |-> "x", mtime |-> 1]}

\* the maps over a subset of the keys whose values come from values[key]
MapsOf(values) ==
  UNION {{f \in [S -> UNION {values[k] : k \in S}] : \A k \in S : f[k] \in values[k]} :
           S \in SUBSET DOMAIN values}

InitDetect ==
  /\ pc = "new"
  /\ result = NoResult
  /\ parallelism = 1
  /\ local_path \in {Root, DotRoot}
  /\ gitignore = {}
  /\ remote_uri = [repository |-> Repository, reference |-> Reference, path |-> None]
  /\ files \in MapsOf([p \in {A, B, H, DA, GITIGNORE} |-> DetectFileValues(p)])
  /\ indexFile = None
  /\ disk0 = None
  /\ remote \in MapsOf([p \in {A, B} |-> DetectRemoteValues(p)])
  /\ index \in {Some([StoredIndex({}) EXCEPT !.entries = e]) :
                  e \in MapsOf([p \in {A, B, H, D} |-> DetectEntries(p)])}
  /\ changes = <<>>
  /\ tasks = <<>>
  /\ permits = 0
  /\ collected = 0
  /\ uploaded = 0 /\ downloaded = 0 /\ removed = 0 /\ errors = <<>>
  /\ clock = StartClock
  /\ request = NoRequest

\* ChangeDetector::new(local_path)
NewDetector ==
  /\ pc = "new"
  /\ gitignore' = ChangeDetector_new(files)
  /\ pc' = "detect"
  /\ UNCHANGED <<request, result, parallelism, local_path, remote_uri, files,
                 indexFile, disk0, remote, index, changes, tasks, permits,
                 collected, uploaded, downloaded, removed, errors, clock>>

\* detector.detect_changes(&index, remote_objects) returns Ok(changes)
DetectCall ==
  /\ pc = "detect"
  /\ changes' \in detect_changes(Unwrap(index), list_objects(remote, remote_uri.path),
                                 files, indexFile, local_path, gitignore)
  /\ pc' = "detected"
  /\ UNCHANGED <<request, result, parallelism, local_path, gitignore, remote_uri,
                 files, indexFile, disk0, remote, index, tasks, permits,
                 collected, uploaded, downloaded, removed, errors, clock>>

NextDetect == NewDetector \/ DetectCall

SpecDetect == InitDetect /\ [][NextDetect]_vars

(***************************************************************************)
(* process_change on its own: one Change of any shape is executed against  *)
(* a tree and a store, and the collect loop merges its result.             *)
(***************************************************************************)
P == <<"p">>      \* the path of a remote URI with a prefix

\* metadata a Change can carry: of an object of the store, current or not
ProcessStats ==
  {ObjectStats(k, v) : k \in {A, P \o A}, v \in DetectRemoteValues(A)}

\* the Changes process_change is run on: a.txt in every combination of
\* kind, local source and metadata, and the removal of a path that is a
\* directory on disk
ProcessInputs ==
  {Change(A, t, lp, rs) : t \in {"Added", "Modified", "Removed"},
                          lp \in {None, Some(Root \o A)},
                          rs \in {None} \cup {Some(o) : o \in ProcessStats}}
  \cup {Change(D, "Removed", lp, None) : lp \in {None, Some(Root \o D)}}

InitProcess ==
  /\ pc = "collect"
  /\ result = NoResult
  /\ parallelism = 1
  /\ local_path = Root
  /\ gitignore = {}
  /\ remote_uri \in {[repository |-> Repository, reference |-> Reference, path |-> x] :
                       x \in {None, Some(P)}}
  /\ files \in MapsOf([p \in {A, DA} |->
                         IF p = A THEN {[data |-> "x", mtime |-> 1], [data |-> "y", mtime |-> 2]}
                         ELSE {[data |-> "x", mtime |-> 1]}])
  /\ indexFile = None
  /\ disk0 = None
  /\ remote \in MapsOf([k \in {A, P \o A} |-> DetectRemoteValues(A)])
  /\ index \in {Some([StoredIndex({}) EXCEPT !.entries = e]) :
                  e \in MapsOf([p \in {A, D} |-> {TrackedEntry(p)}])}
  /\ changes \in {<<c>> : c \in ProcessInputs}
  /\ tasks = <<Task("running", Pending)>>
  /\ permits = 0
  /\ collected = 0
  /\ uploaded = 0 /\ downloaded = 0 /\ removed = 0 /\ errors = <<>>
  /\ clock = StartClock
  /\ request = NoRequest

NextProcess ==
  \/ \E i \in DOMAIN tasks : ProcessChange(i)
  \/ Collect

SpecProcess == InitProcess /\ [][NextProcess]_vars

(***************************************************************************)
(* The start of a pass over a store with more objects than one answer of   *)
(* the gateway's listing holds: an empty tree, no snapshot.                *)
(***************************************************************************)
ObjectKeys == {<<"o" \o ToString(i)>> : i \in 1..(PageSize + 1)}

InitList ==
  SyncInit({None}, {EmptyMap},
           Maps(ObjectKeys, {[data |-> "x", mtime |-> 1], [data |-> "zz", mtime |-> 2]}),
           {Root}, {None})

NextList ==
  \/ CreateIndex \/ CreateIndexFails
  \/ DetectChanges \/ ListFails

SpecList == InitList /\ [][NextList]_vars

(***************************************************************************)
(* A pass against a store whose object paths are whatever a writer of the  *)
(* store chose: one with a ".." segment, one under the index directory.    *)
(* A key of files is the path root.join(key), so a key with ".." names a   *)
(* file outside the root.                                                  *)
(***************************************************************************)
UP == <<"..", "x.txt">>

InitEscape ==
  SyncInit({None, Some(FullFile(Serialize(StoredIndex({A}), <<A>>)))},
           {f \in InitTrees : B \notin DOMAIN f},
           MapsOf([k \in {A, UP, INDEX_FILE} |->
                     IF k = A THEN DetectRemoteValues(A) ELSE {[data |-> "x", mtime |-> 1]}]),
           {Root}, {None})

SpecEscape == InitEscape /\ [][Next]_vars

(***************************************************************************)
(* Two passes in a row under a URI with a path: the objects of the tree    *)
(* live below that path in the store.                                      *)
(***************************************************************************)
InitPrefix ==
  SyncInit({None, Some(FullFile(Serialize(StoredIndex({A}), <<A>>)))},
           {f \in InitTrees : B \notin DOMAIN f},
           MapsOf([k \in {P \o A} |-> DetectRemoteValues(A)]),
           {Root}, {Some(P)})

SpecPrefix == InitPrefix /\ [][NextTwice]_vars

(***************************************************************************)
(* lakefs-api: LakeFSUri::from_str (uri.rs).  A string is the sequence of  *)
(* its characters.                                                         *)
(***************************************************************************)
MaxUriLen == 7          \* characters after the scheme of a URI argument

Scheme == <<"l", "a", "k", "e", "f", "s", ":", "/", "/">>
OtherScheme == <<"s", "3", ":", "/", "/">>

starts_with(s, prefix) == IsPrefix(prefix, s)

\* a split that cuts at every separator
RECURSIVE split(_, _, _)
split(n, s, sep) ==
  IF ~\E i \in DOMAIN s : s[i] = sep THEN <<s>>
  ELSE LET i == CHOOSE k \in DOMAIN s : s[k] = sep /\ \A j \in 1..(k - 1) : s[j] # sep
       IN <<SubSeq(s, 1, i - 1)>> \o split(n, SubSeq(s, i + 1, Len(s)), sep)

\* str::splitn(n, sep): at most n pieces, the last one takes the rest
RECURSIVE splitn(_, _, _)
splitn(n, s, sep) ==
  IF n = 1 \/ ~\E i \in DOMAIN s : s[i] = sep THEN <<s>>
  ELSE LET i == CHOOSE k \in DOMAIN s : s[k] = sep /\ \A j \in 1..(k - 1) : s[j] # sep
       IN <<SubSeq(s, 1, i - 1)>> \o splitn(n - 1, SubSeq(s, i + 1, Len(s)), sep)

LakeFSUri(repository, reference, path) ==
  [repository |-> repository, reference |-> reference, path |-> path]

\* <LakeFSUri as FromStr>::from_str
from_str(s) ==
  IF ~starts_with(s, Scheme)
    THEN Err("InvalidUri", "URI must start with lakefs://")
  ELSE LET parts == splitn(3, SubSeq(s, Len(Scheme) + 1, Len(s)), "/")
       IN IF Len(parts) <= 1
            THEN Err("InvalidUri", "Missing repository and reference")
          ELSE IF Len(parts) = 2
            THEN Ok(LakeFSUri(parts[1], parts[2], None))
          ELSE Ok(LakeFSUri(parts[1], parts[2], Some(parts[3])))

\* the strings over an alphabet up to a length
Strings(alphabet, n) == UNION {[1..k -> alphabet] : k \in 0..n}

\* arguments a caller can pass: with the scheme, with another scheme, with
\* the scheme cut short, with none
UriArguments ==
  {prefix \o t : prefix \in {Scheme, OtherScheme, SubSeq(Scheme, 1, Len(Scheme) - 1), <<>>},
                 t \in Strings({"r", "/"}, MaxUriLen)}

NoUri == LakeFSUri(<<>>, <<>>, None)

InitUri ==
  /\ pc = "parse"
  /\ request \in {[op |-> "from_str", s |-> a] : a \in UriArguments}
  /\ result = NoResult
  /\ parallelism = 1
  /\ local_path = Root
  /\ gitignore = {}
  /\ remote_uri = NoUri
  /\ files = EmptyMap
  /\ indexFile = None
  /\ disk0 = None
  /\ remote = EmptyMap
  /\ index = None
  /\ changes = <<>>
  /\ tasks = <<>>
  /\ permits = 0
  /\ collected = 0
  /\ uploaded = 0 /\ downloaded = 0 /\ removed = 0 /\ errors = <<>>
  /\ clock = StartClock

\* LakeFSUri::from_str(&remote) as the commands call it
ParseUri ==
  /\ pc = "parse"
  /\ LET r == from_str(request.s)
     IN /\ remote_uri' = IF r.ok THEN Unwrap(r.value) ELSE remote_uri
        /\ result' = IF r.ok THEN Returned ELSE Failed(r.err, "from_str")
        /\ pc' = IF r.ok THEN "parsed" ELSE "failed"
  /\ UNCHANGED <<request, parallelism, local_path, gitignore, files, indexFile,
                 disk0, remote, index, changes, tasks, permits, collected,
                 uploaded, downloaded, removed, errors, clock>>

NextUri == ParseUri

SpecUri == InitUri /\ [][NextUri]_vars

(***************************************************************************)
(* lakefs-api: how the operations of LakeFSClient (client.rs) turn the     *)
(* server's answer into their result.                                      *)
(***************************************************************************)
NOT_FOUND == 404
UNAUTHORIZED == 401

\* StatusCode::is_success
is_success(status) == status \in 200..299

\* status codes a server answers with
Statuses == {200, 204, 400, UNAUTHORIZED, 403, NOT_FOUND, 409, 500}

\* operations that go through request / request_with_body
RequestOperations ==
  {"create_repository", "list_repositories", "get_repository", "delete_repository",
   "create_branch", "list_branches", "get_branch", "delete_branch",
   "commit", "get_commit", "log_commits", "list_objects", "get_object",
   "diff", "merge"}

Operations == RequestOperations \cup {"upload_object", "download_object", "delete_object"}

\* the error kinds of lakefs_api::Error a response can lead to
ApiError(kind, status, at) == [kind |-> "Err", err |-> kind, at |-> at, status |-> status]

\* LakeFSClient::handle_response: the results for a status; a successful
\* answer whose body does not decode gives Error::Http
handle_response(status, at) ==
  IF is_success(status) THEN {Returned, ApiError("Http", status, at)}
  ELSE IF status = NOT_FOUND THEN {ApiError("NotFound", status, at)}
  ELSE IF status = UNAUTHORIZED THEN {ApiError("Auth", status, at)}
  ELSE {ApiError("Api", status, at)}

\* what an operation returns for the status the server answered with
respond(op, status) ==
  IF op = "download_object"
    THEN IF is_success(status) THEN {Returned, ApiError("Http", status, op)}
         ELSE {ApiError("Api", status, op)}
  ELSE IF op = "delete_object"
    THEN IF is_success(status) THEN {Returned}
         ELSE {ApiError("Api", status, op)}
  ELSE handle_response(status, op)

InitClient ==
  /\ pc = "idle"
  /\ request = NoRequest
  /\ result = NoResult
  /\ parallelism = 1
  /\ local_path = Root
  /\ gitignore = {}
  /\ remote_uri = [repository |-> Repository, reference |-> Reference, path |-> None]
  /\ files = EmptyMap
  /\ indexFile = None
  /\ disk0 = None
  /\ remote = EmptyMap
  /\ index = None
  /\ changes = <<>>
  /\ tasks = <<>>
  /\ permits = 0
  /\ collected = 0
  /\ uploaded = 0 /\ downloaded = 0 /\ removed = 0 /\ errors = <<>>
  /\ clock = StartClock

\* an operation builds its request and sends it
SendRequest ==
  /\ pc = "idle"
  /\ \E op \in Operations : request' = [op |-> op, status |-> 0]
  /\ result' = NoResult
  /\ pc' = "sent"
  /\ UNCHANGED <<parallelism, local_path, gitignore, remote_uri, files, indexFile,
                 disk0, remote, index, changes, tasks, permits, collected,
                 uploaded, downloaded, removed, errors, clock>>

\* send().await? fails: no answer
SendFails ==
  /\ pc = "sent"
  /\ result' = ApiError("Http", 0, request.op)
  /\ pc' = "returned"
  /\ UNCHANGED <<request, parallelism, local_path, gitignore, remote_uri, files,
                 indexFile, disk0, remote, index, changes, tasks, permits,
                 collected, uploaded, downloaded, removed, errors, clock>>

\* the server's answer arrives and the operation returns
ReceiveResponse ==
  /\ pc = "sent"
  /\ \E status \in Statuses :
       /\ request' = [request EXCEPT !.status = status]
       /\ result' \in respond(request.op, status)
  /\ pc' = "returned"
  /\ UNCHANGED <<parallelism, local_path, gitignore, remote_uri, files, indexFile,
                 disk0, remote, index, changes, tasks, permits, collected,
                 uploaded, downloaded, removed, errors, clock>>

\* the caller has the result and may call again
NextCall ==
  /\ pc = "returned"
  /\ request' = NoRequest
  /\ result' = NoResult
  /\ pc' = "idle"
  /\ UNCHANGED <<parallelism, local_path, gitignore, remote_uri, files, indexFile,
                 disk0, remote, index, changes, tasks, permits, collected,
                 uploaded, downloaded, removed, errors, clock>>

NextClient == SendRequest \/ SendFails \/ ReceiveResponse \/ NextCall

SpecClient == InitClient /\ [][NextClient]_vars

(***************************************************************************)
(* Properties.                                                             *)
(***************************************************************************)
\* entries of the index the pass started from
LoadedEntries ==
  IF load(disk0).ok THEN Unwrap(load(disk0).value).entries ELSE EmptyMap

Running == {i \in DOMAIN tasks : tasks[i].state = "running"}
Waiting == {i \in DOMAIN tasks : tasks[i].state = "waiting"}
Finished == {i \in DOMAIN tasks : tasks[i].state = "done"}
Succeeded == {i \in Finished : tasks[i].result.ok}
Faulted == {i \in Finished : ~tasks[i].result.ok}

\* the loaded entries with the successful ones of the first n Changes applied
ExpectedEntries(n) ==
  LET ok   == Succeeded \cap (1..n)
      put  == {i \in ok : changes[i].change_type # "Removed"}
      del  == {changes[i].path : i \in ok \ put}
      keys == ((DOMAIN LoadedEntries) \ del) \cup {changes[i].path : i \in put}
  IN [p \in keys |->
        IF \E i \in put : changes[i].path = p
          THEN Unwrap(tasks[CHOOSE i \in put : changes[i].path = p].result.value)
          ELSE LoadedEntries[p]]

\* C1: a pass that returns its summary has run every Change to its end,
\* lists every failed Change exactly once in errors as (path, error), has
\* applied every successful Change to the index, and has saved an index
\* file that loads to exactly the loaded entries plus the successful Changes.
C1_PartialFailureIsolation ==
  pc = "done" =>
    /\ Len(tasks) = Len(changes)
    /\ Finished = DOMAIN tasks
    /\ \A i \in Faulted :
         /\ Cardinality({k \in DOMAIN errors : errors[k][1] = changes[i].path}) = 1
         /\ \E k \in DOMAIN errors : errors[k] = <<changes[i].path, tasks[i].result.err>>
    /\ Len(errors) = Cardinality(Faulted)
    /\ Unwrap(index).entries = ExpectedEntries(Len(changes))
    /\ load(indexFile).ok
    /\ Unwrap(load(indexFile).value).entries = ExpectedEntries(Len(changes))

\* a pass over three Changes, one failed and two applied, has returned
C1_Witness ==
  /\ pc = "done"
  /\ Len(changes) = 3
  /\ Cardinality(Faulted) = 1
  /\ Cardinality(Succeeded) = 2
  /\ Len(errors) = 1

\* C2: a snapshot that exists but does not load (corrupt, or of another
\* format version) aborts the pass before it lists, transfers or writes:
\* the pass never gets past loading and the index file stays as it was.
C2_OnlyMissingSnapshotHealed ==
  (disk0 # None /\ ~load(disk0).ok) =>
    /\ pc \in {"load", "failed"}
    /\ index = None
    /\ tasks = <<>>
    /\ indexFile = disk0

\* C3: when list_objects fails the pass has returned an error, no task was
\* spawned, and the index file is what it was before the pass (absent if it
\* was absent).
C3_ListFailureLeavesIndexFile ==
  result = Failed("Api", "list_objects") =>
    /\ pc = "failed"
    /\ tasks = <<>>
    /\ indexFile = disk0

\* the listing failed in a pass that had made a fresh index for a tree
\* without a snapshot
C3_Witness ==
  /\ result = Failed("Api", "list_objects")
  /\ disk0 = None
  /\ index # None

\* C4: at most `parallelism` tasks hold a permit and execute process_change.
C4_BoundedConcurrency ==
  /\ Cardinality(Running) <= parallelism
  /\ permits >= 0

\* every permit is taken while another spawned task waits for one
C4_Witness ==
  /\ Cardinality(Running) = parallelism
  /\ Waiting # {}
  /\ Len(changes) > parallelism

C6_DetectionBarrier ==
  [][/\ tasks' # tasks =>
          /\ pc \in {"spawn", "collect"}
          /\ index # None
          /\ changes' = changes
          /\ Len(tasks') <= Len(changes)
     /\ changes' # changes => (pc = "list" /\ tasks = <<>> /\ tasks' = <<>>)]_vars

\* a transfer runs while the spawn loop is still handing out Changes
C6_Witness ==
  /\ pc = "spawn"
  /\ Running # {}
  /\ Len(tasks) < Len(changes)

\* C7: until the final save starts, the index file is the pre-pass snapshot.
C7_IndexFileWrittenOnlyBySave ==
  pc \in {"load", "list", "spawn", "collect", "resolve", "save"} =>
    indexFile = disk0

\* C8: while save replaces a snapshot that loads, and after it has returned
\* or failed, load sees the complete old index or the complete new one.
C8_SaveAtomic ==
  (pc \in {"write", "done", "failed"} /\ load(disk0).ok) =>
    /\ load(indexFile).ok
    /\ Unwrap(load(indexFile).value) \in {Unwrap(load(disk0).value), Unwrap(index)}

\* C9: after save has returned, load succeeds and yields the saved index,
\* equal in every field and in every entry.
C9_RoundTrip ==
  pc = "done" => load(indexFile) = Ok(Unwrap(index))

\* an index with two entries, one with permissions, was saved
C9_Witness ==
  /\ pc = "done"
  /\ result = Returned
  /\ DOMAIN Unwrap(index).entries = {A, B}
  /\ \E p \in {A, B} : IsSome(Unwrap(index).entries[p].permissions)
  /\ Unwrap(index).head_commit = BranchCommit

IsOtherVersion(file) ==
  /\ file # None
  /\ Unwrap(file).written = WriteChunks
  /\ Parses(Unwrap(file).json)
  /\ Deserialize(Unwrap(file).json).version # VERSION

\* C10: load of a snapshot of another format version fails with the kind
\* UnsupportedVersion, which is neither the kind a missing snapshot gives
\* nor the kind an unparsable snapshot gives.
C10_VersionGate ==
  (result.at = "load" /\ IsOtherVersion(indexFile)) =>
    /\ result.kind = "Err"
    /\ result.err = "UnsupportedVersion"
    /\ result.err # load(None).err
    /\ result.err # load(Some(FullFile([garbage |-> "not json"]))).err

(***************************************************************************)
(* Properties of change detection.                                         *)
(***************************************************************************)
Detected == pc = "detected"
Entries == Unwrap(index).entries
Listing == list_objects(remote, remote_uri.path)
\* the files the walk yields
Walked == Enumerated(files, local_path, gitignore)
ChangesFor(p) == {i \in DOMAIN changes : changes[i].path = p}
\* a Change of the first or the second loop
LocalOrigin(c) == IsSome(c.local_path) \/ c.change_type = "Removed"

C12_RemovedTrackedFile ==
  (Detected /\ DOMAIN remote = {}) =>
    \A p \in DOMAIN Entries :
      /\ ~exists(files, indexFile, p) =>
           /\ Cardinality(ChangesFor(p)) = 1
           /\ \A i \in ChangesFor(p) : changes[i] = Change(p, "Removed", None, None)
      /\ (DOMAIN Entries = {p} /\ DOMAIN files = {}) => Len(changes) = 1

\* the index tracks a.txt, the tree and the listing are empty
C12_Witness ==
  /\ Detected
  /\ DOMAIN Entries = {A} /\ DOMAIN files = {} /\ DOMAIN remote = {}
  /\ changes = <<Change(A, "Removed", None, None)>>

C14_RemoteOnlyAddition ==
  Detected =>
    /\ \A o \in Listing :
         (/\ o.path \notin DOMAIN Entries
          /\ ~\E i \in ChangesFor(o.path) : IsSome(changes[i].local_path)) =>
            /\ Cardinality(ChangesFor(o.path)) = 1
            /\ \A i \in ChangesFor(o.path) :
                 changes[i] = Change(o.path, "Added", None, Some(o))
    /\ (DOMAIN Entries = {} /\ DOMAIN files = {} /\ Cardinality(Listing) = 1)
         => Len(changes) = 1

\* one listed object beside an empty index and an empty tree
C14_Witness ==
  /\ Detected
  /\ DOMAIN Entries = {} /\ DOMAIN files = {} /\ DOMAIN remote = {A}
  /\ changes = <<Change(A, "Added", None, Some(ObjectStats(A, remote[A])))>>

\* C17: an enumerated, indexed file whose size equals the indexed size gets
\* a Change with a local source, and then exactly one, of kind Modified, if
\* and only if its modification time is strictly newer than the indexed one
\* and its SHA-256 differs from the indexed checksum; otherwise the path has
\* no Change with a local source, and no Change at all unless the listing
\* has an object of that path.
C17_TieredChangeTest ==
  Detected =>
    \A p \in Walked \cap DOMAIN Entries :
      Size(files[p].data) = Entries[p].size =>
        LET loc == {i \in ChangesFor(p) : IsSome(changes[i].local_path)}
        IN IF /\ files[p].mtime > Entries[p].mtime
              /\ Sha256(files[p].data) # Entries[p].checksum
             THEN /\ ChangesFor(p) = loc
                  /\ Cardinality(loc) = 1
                  /\ \A i \in loc : changes[i].change_type = "Modified"
             ELSE /\ loc = {}
                  /\ p \notin DOMAIN remote => ChangesFor(p) = {}

\* same size, other content, a time that is not newer: nothing is reported
C17_Witness ==
  /\ Detected
  /\ A \in Walked \cap DOMAIN Entries
  /\ Size(files[A].data) = Entries[A].size
  /\ files[A].mtime = Entries[A].mtime
  /\ Sha256(files[A].data) # Entries[A].checksum
  /\ ChangesFor(A) = {}

\* C18 as stated: every indexed path the walk does not yield, also one that
\* exists on disk as a dot-path, an ignored path or a directory, gets a
\* Removed Change with no local source (under a root of an ordinary name).
C18_RemovedWhenNotEnumerated ==
  (Detected /\ ~StartsWithDot(Last(local_path))) =>
    \A p \in (DOMAIN Entries) \ Walked :
      \E i \in ChangesFor(p) :
        changes[i].change_type = "Removed" /\ changes[i].local_path = None

\* C18 amended: an indexed path gets a Removed Change exactly when nothing
\* exists on disk at that path; the Change is then the only one of the path,
\* has no local source and carries the listed metadata of the path if the
\* listing has it.  An indexed path that exists on disk gets no Removed
\* Change, whether the walk yields it or not.
C18_RemovedWhenNotOnDisk ==
  Detected =>
    \A p \in DOMAIN Entries :
      IF ~exists(files, indexFile, p)
        THEN /\ Cardinality(ChangesFor(p)) = 1
             /\ \A i \in ChangesFor(p) :
                  changes[i] = Change(p, "Removed", None, Get(RemoteMap(Listing), p))
        ELSE \A i \in ChangesFor(p) : changes[i].change_type # "Removed"

\* a tracked dotfile that is on disk is left alone while a tracked file that
\* is gone is reported with its listed metadata
C18_Witness ==
  /\ Detected
  /\ local_path = Root
  /\ H \in DOMAIN Entries /\ H \in DOMAIN files /\ H \notin Walked
  /\ ChangesFor(H) = {}
  /\ A \in DOMAIN Entries /\ A \notin DOMAIN files /\ A \in DOMAIN remote
  /\ \E i \in ChangesFor(A) :
       changes[i] = Change(A, "Removed", None, Some(ObjectStats(A, remote[A])))

\* C19: a listed object whose path has no Change of the first two loops
\* gets one Change, Modified with no local source, when the index has the
\* path with another checksum; one Change, Added with no local source, when
\* the index does not have the path; and no Change when the index has the
\* path with the same checksum.
C19_RemoteChanges ==
  Detected =>
    \A o \in Listing :
      (~\E i \in ChangesFor(o.path) : LocalOrigin(changes[i])) =>
        IF o.path \notin DOMAIN Entries
          THEN /\ Cardinality(ChangesFor(o.path)) = 1
               /\ \A i \in ChangesFor(o.path) :
                    changes[i] = Change(o.path, "Added", None, Some(o))
        ELSE IF o.checksum # Entries[o.path].checksum
          THEN /\ Cardinality(ChangesFor(o.path)) = 1
               /\ \A i \in ChangesFor(o.path) :
                    changes[i] = Change(o.path, "Modified", None, Some(o))
        ELSE ChangesFor(o.path) = {}

\* one listed object changed against the index, another one did not
C19_Witness ==
  /\ Detected
  /\ {A, B} \subseteq DOMAIN Entries
  /\ {A, B} \subseteq DOMAIN remote
  /\ RemoteChecksum(remote[A].data) # Entries[A].checksum
  /\ RemoteChecksum(remote[B].data) = Entries[B].checksum
  /\ \E i \in ChangesFor(A) :
       changes[i] = Change(A, "Modified", None, Some(ObjectStats(A, remote[A])))
  /\ ChangesFor(B) = {}

\* C20: a change set has at most one Change per path.
C20_DisjointPaths ==
  \A i, j \in DOMAIN changes : changes[i].path = changes[j].path => i = j

\* a local Change took the listed object of its path, another path has a
\* Change of its own
C20_Witness ==
  /\ Detected
  /\ Len(changes) >= 2
  /\ \E i \in DOMAIN changes :
       /\ IsSome(changes[i].local_path)
       /\ IsSome(changes[i].remote_stats)
  /\ \E i \in DOMAIN changes :
       /\ changes[i].change_type = "Removed"
       /\ IsSome(changes[i].remote_stats)

(***************************************************************************)
(* Properties of the lakefs-api crate.                                     *)
(***************************************************************************)
\* C15: whatever the operation, an answer 404 is returned as the NotFound
\* kind and an answer 401 as the Auth kind.
C15_NotFoundAndAuthKinds ==
  pc = "returned" =>
    /\ request.status = NOT_FOUND => (result.kind = "Err" /\ result.err = "NotFound")
    /\ request.status = UNAUTHORIZED => (result.kind = "Err" /\ result.err = "Auth")

\* the argument without its scheme, and the places of its slashes
Rest == SubSeq(request.s, Len(Scheme) + 1, Len(request.s))
Slashes == {i \in DOMAIN Rest : Rest[i] = "/"}
FirstSlash == CHOOSE i \in Slashes : \A j \in Slashes : i <= j
SecondSlash == CHOOSE i \in Slashes \ {FirstSlash} : \A j \in Slashes \ {FirstSlash} : i <= j

\* C16: from_str succeeds exactly on the strings that start with lakefs://
\* and have a slash after it; the repository is what precedes the first
\* slash, the reference what lies between the first and the second slash
\* (or the end), the path everything after the second slash and None when
\* there is no second slash; every other string gives an InvalidUri error.
C16_UriFromStr ==
  pc \in {"parsed", "failed"} =>
    IF starts_with(request.s, Scheme) /\ Slashes # {}
      THEN /\ pc = "parsed"
           /\ result = Returned
           /\ remote_uri.repository = SubSeq(Rest, 1, FirstSlash - 1)
           /\ IF Cardinality(Slashes) = 1
                THEN /\ remote_uri.reference = SubSeq(Rest, FirstSlash + 1, Len(Rest))
                     /\ remote_uri.path = None
                ELSE /\ remote_uri.reference = SubSeq(Rest, FirstSlash + 1, SecondSlash - 1)
                     /\ remote_uri.path = Some(SubSeq(Rest, SecondSlash + 1, Len(Rest)))
      ELSE /\ pc = "failed"
           /\ result = Failed("InvalidUri", "from_str")
           /\ remote_uri = NoUri

\* lakefs://r/r/r/r was parsed: the path keeps its own slash
C16_Witness ==
  /\ pc = "parsed"
  /\ request.s = Scheme \o <<"r", "/", "r", "/", "r", "/", "r">>
  /\ remote_uri = LakeFSUri(<<"r">>, <<"r">>, Some(<<"r", "/", "r">>))

(***************************************************************************)
(* Properties of process_change and of the merge of its result.            *)
(***************************************************************************)
\* the key of the store a Change's path stands for under the URI of the pass
StoreKey(c) ==
  IF IsSome(remote_uri.path) THEN Unwrap(remote_uri.path) \o c.path ELSE c.path

\* C23: the entry a successful Added or Modified Change returns has the
\* checksum, size and time the gateway reports: with a local source those
\* of the object the upload has just stored, which holds the file's bytes;
\* without one those of the metadata the Change carries, and the bytes of
\* the object that metadata names are in the file at the Change's path.
C23_EntryFromGateway ==
  \A i \in Succeeded :
    changes[i].change_type # "Removed" =>
      LET c == changes[i]
          e == Unwrap(tasks[i].result.value)
      IN IF IsSome(c.local_path)
           THEN /\ StoreKey(c) \in DOMAIN remote
                /\ remote[StoreKey(c)].data = files[c.path].data
                /\ e = [path |-> c.path,
                        checksum |-> RemoteChecksum(remote[StoreKey(c)].data),
                        size |-> Size(remote[StoreKey(c)].data),
                        mtime |-> remote[StoreKey(c)].mtime,
                        permissions |-> None]
           ELSE /\ e = [path |-> c.path,
                        checksum |-> Unwrap(c.remote_stats).checksum,
                        size |-> Unwrap(c.remote_stats).size_bytes,
                        mtime |-> Unwrap(c.remote_stats).mtime,
                        permissions |-> None]
                /\ c.path \in DOMAIN files
                /\ files[c.path].data = remote[Unwrap(c.remote_stats).path].data

\* an upload under a URI with a prefix and its entry, merged into the index
C23_Witness ==
  /\ collected = 1
  /\ changes[1].change_type = "Modified"
  /\ IsSome(changes[1].local_path)
  /\ remote_uri.path = Some(P)
  /\ tasks[1].result.ok
  /\ Unwrap(index).entries[A].checksum = RemoteChecksum(files[A].data)
  /\ uploaded = 1

\* C24: the execution of a Removed Change with no local source leaves the
\* store alone; when nothing is at the path it succeeds and leaves the tree
\* alone; when a file is there it either deletes that file and succeeds or
\* fails and leaves it.  The merge of a success takes the path out of the
\* index and adds one to the removed count only.
C24_RemoveLocal ==
  [][LET c == changes[1]
     IN (c.change_type = "Removed" /\ c.local_path = None) =>
          /\ (tasks[1].state = "running" /\ tasks'[1].state = "done") =>
               /\ remote' = remote
               /\ ~exists(files, indexFile, c.path) =>
                    (tasks'[1].result.ok /\ files' = files)
               /\ (exists(files, indexFile, c.path) /\ tasks'[1].result.ok) =>
                    (c.path \in DOMAIN files /\ files' = Del(files, c.path))
               /\ ~tasks'[1].result.ok => files' = files
          /\ (collected' = 1 /\ collected = 0 /\ tasks[1].result.ok) =>
               /\ Unwrap(index').entries = Del(Unwrap(index).entries, c.path)
               /\ removed' = removed + 1
               /\ uploaded' = uploaded /\ downloaded' = downloaded
               /\ errors' = errors]_vars

\* the removal of a tracked path was executed and merged while another file
\* of the tree stayed
C24_Witness ==
  /\ collected = 1
  /\ changes[1] = Change(A, "Removed", None, None)
  /\ tasks[1].result.ok
  /\ A \notin DOMAIN files /\ DA \in DOMAIN files
  /\ A \notin DOMAIN Unwrap(index).entries /\ D \in DOMAIN Unwrap(index).entries
  /\ removed = 1 /\ errors = <<>>

\* C25: the execution of a Removed Change with a local source leaves the
\* tree alone; when it succeeds the object at the Change's path under the
\* URI's path is gone from the store and every other object is as it was,
\* when it fails the store is as it was.
C25_RemoveRemote ==
  [][LET c == changes[1]
     IN (/\ c.change_type = "Removed" /\ IsSome(c.local_path)
         /\ tasks[1].state = "running" /\ tasks'[1].state = "done") =>
          /\ files' = files
          /\ indexFile' = indexFile
          /\ tasks'[1].result.ok => remote' = Del(remote, StoreKey(c))
          /\ ~tasks'[1].result.ok => remote' = remote]_vars

\* under a URI with a prefix the object below the prefix was deleted, the
\* object of the same name outside it and the local file are still there
C25_Witness ==
  /\ changes[1].change_type = "Removed"
  /\ changes[1].path = A
  /\ IsSome(changes[1].local_path)
  /\ tasks[1].state = "done" /\ tasks[1].result.ok
  /\ remote_uri.path = Some(P)
  /\ P \o A \notin DOMAIN remote
  /\ A \in DOMAIN remote
  /\ A \in DOMAIN files

(***************************************************************************)
(* Properties of a pass: conflicts, failures, the head and the summary.     *)
(***************************************************************************)
\* detect_changes has returned and no task has been spawned yet: the tree,
\* the store and the index are those detection has seen
JustDetected == pc = "spawn" /\ tasks = <<>>

\* the tracked paths whose file and whose object both differ from the index
ChangedOnBothSides ==
  {p \in (Enumerated(files, local_path, gitignore) \cap DOMAIN remote)
           \cap DOMAIN Unwrap(index).entries :
     /\ has_changed(files[p], Unwrap(index).entries[p])
     /\ ObjectStats(p, remote[p]).checksum # Unwrap(index).entries[p].checksum}

\* the Changes of the pass that pair a changed file with a changed object
Conflicts ==
  {i \in DOMAIN changes :
     /\ changes[i].change_type = "Modified"
     /\ IsSome(changes[i].local_path)
     /\ IsSome(changes[i].remote_stats)
     /\ changes[i].path \in DOMAIN LoadedEntries
     /\ Unwrap(changes[i].remote_stats).checksum # LoadedEntries[changes[i].path].checksum}

\* C21 as stated: a path whose file and object both changed gets one Change
\* with a local source and one without.
C21_ChangePerSide ==
  JustDetected =>
    \A p \in ChangedOnBothSides :
      \E i, j \in DOMAIN changes :
        /\ changes[i].path = p /\ IsSome(changes[i].local_path)
        /\ changes[j].path = p /\ changes[j].local_path = None

\* C21: a path whose file and object both changed gets exactly one Change,
\* Modified, with the file as source and the object's metadata attached; when
\* it succeeds the object holds the file's bytes and the index entry of the
\* path is the upload's result.
C21_LocalSideWins ==
  /\ JustDetected =>
       \A p \in ChangedOnBothSides :
         \E i \in DOMAIN changes :
           /\ changes[i] = Change(p, "Modified", Some(local_path \o p),
                                  Some(ObjectStats(p, remote[p])))
           /\ \A j \in DOMAIN changes : changes[j].path = p => j = i
  /\ pc = "done" =>
       \A i \in Conflicts \cap Succeeded :
         LET p == changes[i].path
         IN /\ remote[p].data = files[p].data
            /\ Unwrap(index).entries[p] = Unwrap(tasks[i].result.value)
            /\ Unwrap(index).entries[p].checksum = RemoteChecksum(files[p].data)

\* a pass ended in which the file's bytes replaced the changed object's
C21_Witness ==
  /\ pc = "done"
  /\ \E i \in Conflicts \cap Succeeded :
       /\ changes[i].path = A
       /\ Unwrap(changes[i].remote_stats).checksum = RemoteChecksum("zz")
       /\ remote[A].data = "y"
       /\ Unwrap(index).entries[A].checksum = RemoteChecksum("y")

\* C26: the index entry of the path of a failed Change is, during and after
\* the pass, the one the pass loaded (present and equal, or absent), in
\* memory and in the saved file; and the three counts add up to the number
\* of successful Changes collected.
C26_FailedChangeLeavesEntry ==
  /\ \A i \in Faulted :
       /\ index # None =>
            Get(Unwrap(index).entries, changes[i].path) = Get(LoadedEntries, changes[i].path)
       /\ pc = "done" =>
            Get(Unwrap(load(indexFile).value).entries, changes[i].path)
              = Get(LoadedEntries, changes[i].path)
  /\ uploaded + downloaded + removed = Cardinality(Succeeded \cap (1..collected))

\* a pass returned in which the Change of a tracked path and the Change of
\* an untracked path failed and another Change was applied
C26_Witness ==
  /\ pc = "done"
  /\ \E i \in Faulted : /\ changes[i].path \in DOMAIN LoadedEntries
                        /\ Unwrap(index).entries[changes[i].path] = TrackedEntry(changes[i].path)
  /\ \E i \in Faulted : /\ changes[i].path \notin DOMAIN LoadedEntries
                        /\ changes[i].path \notin DOMAIN Unwrap(index).entries
  /\ uploaded + downloaded + removed = 1

\* C27: when get_branch fails after the transfers, the pass has failed and
\* the index file is the snapshot the pass started with.
C27_ResolveFailureWritesNothing ==
  result = Failed("Api", "get_branch") =>
    /\ pc = "failed"
    /\ indexFile = disk0

\* C28: when detect_changes fails the pass has failed with no change set,
\* no task, nothing counted, nothing transferred since the index was loaded
\* or created, and the index file is the snapshot the pass started with.
C28_DetectionAllOrNothing ==
  result = Failed("Io", "detect_changes") =>
    /\ pc = "failed"
    /\ changes = <<>>
    /\ tasks = <<>>
    /\ indexFile = disk0
    /\ uploaded = 0 /\ downloaded = 0 /\ removed = 0 /\ errors = <<>>
    /\ clock \in {StartClock, StartClock + 1}
    /\ clock = StartClock + 1 <=> ~load(disk0).ok

\* detection failed in a tree with a tracked file that has changed and a
\* store with an object the index does not know
C28_Witness ==
  /\ result = Failed("Io", "detect_changes")
  /\ A \in DOMAIN LoadedEntries
  /\ A \in DOMAIN files /\ has_changed(files[A], LoadedEntries[A])
  /\ B \in DOMAIN remote /\ B \notin DOMAIN LoadedEntries

\* C29: the index a returned pass has saved carries the commit get_branch
\* gave at the time it is stamped with; that time is the last event of the
\* pass, later than every entry a transfer of the pass produced, and every
\* Change had been run and collected by then.
C29_HeadResolvedAfterTransfers ==
  pc = "done" =>
    LET saved == Unwrap(load(indexFile).value)
    IN /\ saved.head_commit = get_branch(saved.last_sync).commit_id
       /\ saved.last_sync = clock - 1
       /\ Finished = DOMAIN tasks /\ collected = Len(changes)
       /\ \A i \in Succeeded :
            (changes[i].change_type # "Removed" /\ IsSome(changes[i].local_path)) =>
              Unwrap(tasks[i].result.value).mtime < saved.last_sync

\* a pass over a loaded index returned after two transfers: the saved head
\* is neither the loaded one nor the one of the time the pass started
C29_Witness ==
  /\ pc = "done"
  /\ load(disk0).ok
  /\ Cardinality(Succeeded) = 2
  /\ Unwrap(load(indexFile).value).head_commit = get_branch(StartClock + 2).commit_id
  /\ Unwrap(load(disk0).value).head_commit # Unwrap(load(indexFile).value).head_commit

\* C30: in a returned pass the counts and the errors add up to the number
\* of Changes, each count is the number of successful Changes of its kind,
\* and no path is in errors twice.
C30_SummaryAccounting ==
  pc = "done" =>
    /\ uploaded + downloaded + removed + Len(errors) = Len(changes)
    /\ uploaded = Cardinality({i \in Succeeded : /\ changes[i].change_type # "Removed"
                                                 /\ IsSome(changes[i].local_path)})
    /\ downloaded = Cardinality({i \in Succeeded : /\ changes[i].change_type # "Removed"
                                                   /\ changes[i].local_path = None})
    /\ removed = Cardinality({i \in Succeeded : changes[i].change_type = "Removed"})
    /\ \A k, l \in DOMAIN errors : errors[k][1] = errors[l][1] => k = l

\* a returned pass with one upload, one download and one failure
C30_Witness ==
  /\ pc = "done"
  /\ uploaded = 1 /\ downloaded = 1 /\ removed = 0
  /\ Len(errors) = 1
  /\ Len(changes) = 3

\* the files whose path below the root has no component that begins with a
\* dot and none the root's ignore file names
Covered ==
  {p \in DOMAIN files :
     \A n \in 1..Len(p) : ~StartsWithDot(p[n]) /\ p[n] \notin gitignore}

\* C22: whatever the root is called, the walk yields exactly the covered
\* files, and no Change is about the index file or the ignore file.
C22_EnumerationCoverage ==
  Detected =>
    /\ Walked = Covered
    /\ \A i \in DOMAIN changes : changes[i].path \notin {INDEX_FILE, GITIGNORE}

(***************************************************************************)
(* Properties of the listing, of the commands and of consecutive passes.    *)
(***************************************************************************)
\* C31: detection sees every object of the store: with an empty tree and an
\* empty index every object under the reference has its Change.
C31_ListingComplete ==
  (pc \in {"spawn", "resolve"} /\ tasks = <<>>) =>
    \A p \in DOMAIN remote : ChangesFor(p) # {}

\* C32: the index file the pull or commit command leaves has the entries
\* its pass has saved: the loaded ones with every successful Change applied.
C32_CommandKeepsEntries ==
  pc \in {"pulled", "committed"} =>
    /\ load(indexFile).ok
    /\ Unwrap(load(indexFile).value).entries = ExpectedEntries(Len(changes))

\* C33: a pass that follows a pass without errors, with tree and store left
\* alone in between, detects nothing and transfers nothing.
C33_Quiescence ==
  (SecondPass /\ pc \notin {"load", "list", "failed"}) =>
    /\ changes = <<>>
    /\ uploaded = 0 /\ downloaded = 0 /\ removed = 0

\* the pass has returned, with its summary or with an error
Returns == pc \in {"done", "failed"}
TaskIds == 1..Cardinality({A, B})

\* C34: every Removed Change of a change set has no local source, and no
\* step of a pass takes an object out of the store.
C34_NoRemoteDelete ==
  [][/\ \A i \in DOMAIN changes' :
          changes'[i].change_type = "Removed" => changes'[i].local_path = None
     /\ DOMAIN remote \subseteq DOMAIN remote']_vars

\* a pass returned that removed the entry of a tracked file which is gone
\* from the tree, and the object of that path is still in the store
C34_Witness ==
  /\ pc = "done"
  /\ A \in DOMAIN remote
  /\ \E i \in Succeeded :
       /\ changes[i] = Change(A, "Removed", None, Some(ObjectStats(A, remote[A])))
       /\ A \in DOMAIN LoadedEntries
       /\ A \notin DOMAIN files
       /\ A \notin DOMAIN Unwrap(index).entries
  /\ removed = 1

\* C35: with parallelism of at least one the pass returns; every task that
\* waits is admitted, every admitted task ends, and once the collect loop is
\* through every permit is back, whatever the results were.
C35_Termination ==
  parallelism >= 1 =>
    /\ <>Returns
    /\ \A i \in TaskIds :
         /\ [](i \in Waiting => <>(i \in Running))
         /\ [](i \in Running => <>(i \in Finished))
    /\ []((pc \in {"resolve", "save", "write", "done"}) =>
            (permits = parallelism /\ Finished = DOMAIN tasks /\ Len(tasks) = Len(changes)))

\* with one permit a pass over two Changes, one of which failed, returned
C35_Witness ==
  /\ pc = "done"
  /\ parallelism = 1
  /\ Len(tasks) = 2
  /\ Faulted # {} /\ Succeeded # {}
  /\ permits = 1

\* C36: a pass with parallelism zero returns.
C36_ZeroParallelismReturns ==
  parallelism = 0 => <>Returns

\* what the Changes of the pass were and how each ended, as a set: neither
\* the position in the change list nor the order of the tasks is in it
Outcomes ==
  {[path |-> changes[i].path, change_type |-> changes[i].change_type,
    local |-> IsSome(changes[i].local_path), result |-> tasks[i].result] :
     i \in DOMAIN changes}
Applied(O) == {o \in O : o.result.ok}
Put_(O) == {o \in Applied(O) : o.change_type # "Removed"}

\* the entries an index has after the outcomes O were merged into loaded
MergedEntries(loaded, O) ==
  [p \in ((DOMAIN loaded) \ {o.path : o \in Applied(O) \ Put_(O)})
           \cup {o.path : o \in Put_(O)} |->
     IF \E o \in Put_(O) : o.path = p
       THEN Unwrap((CHOOSE o \in Put_(O) : o.path = p).result.value)
       ELSE loaded[p]]

\* C37: the index a returned pass has saved and the counts of its summary
\* are determined by the loaded index and the set of outcomes alone.
C37_OrderIndependence ==
  pc = "done" =>
    LET saved == Unwrap(load(indexFile).value)
    IN /\ saved.entries = MergedEntries(LoadedEntries, Outcomes)
       /\ saved.last_sync = StartClock + Cardinality(Applied(Outcomes))
                              + (IF load(disk0).ok THEN 0 ELSE 1)
       /\ saved.head_commit = get_branch(saved.last_sync).commit_id
       /\ saved.repository = remote_uri.repository
       /\ saved.reference = remote_uri.reference
       /\ uploaded = Cardinality({o \in Put_(Outcomes) : o.local})
       /\ downloaded = Cardinality({o \in Put_(Outcomes) : ~o.local})
       /\ removed = Cardinality(Applied(Outcomes) \ Put_(Outcomes))
       /\ Len(errors) = Cardinality(Outcomes \ Applied(Outcomes))

\* a pass with two permits returned in which the transfer of the second
\* Change ended before the transfer of the first
C37_Witness ==
  /\ pc = "done"
  /\ parallelism = 2
  /\ Len(changes) >= 2
  /\ {1, 2} \subseteq Succeeded
  /\ changes[1].change_type # "Removed" /\ IsSome(changes[1].local_path)
  /\ changes[2].change_type # "Removed" /\ IsSome(changes[2].local_path)
  /\ Unwrap(tasks[2].result.value).mtime < Unwrap(tasks[1].result.value).mtime

\* Path::join keeps ".." segments: the path leaves the root
Inside(p) == \A n \in 1..Len(p) : p[n] # ".."

\* C38: every file a step of the pass creates, rewrites or deletes is inside
\* the root and is not the index file, and only save writes the index file.
C38_WritesStayInside ==
  [][/\ \A p \in (DOMAIN files) \cup (DOMAIN files') :
          Get(files, p) # Get(files', p) => (Inside(p) /\ p # INDEX_FILE)
     /\ indexFile' # indexFile => pc \in {"save", "write"}]_vars

\* C39: under a URI with a path every Change that carries an object's
\* metadata is about the object its own path maps to below the URI's path,
\* and in a pass that follows another no object of a tracked file is taken
\* for an object the tree does not have.
C39_PrefixConsistency ==
  (IsSome(remote_uri.path) /\ pc \notin {"load", "list", "failed"}) =>
    \A i \in DOMAIN changes :
      /\ IsSome(changes[i].remote_stats) =>
           Unwrap(changes[i].remote_stats).path = StoreKey(changes[i])
      /\ (SecondPass /\ changes[i].change_type = "Added" /\ changes[i].local_path = None) =>
           \A r \in DOMAIN LoadedEntries :
             Unwrap(changes[i].remote_stats).path # Unwrap(remote_uri.path) \o r
====
